---- MODULE Spec2Model ----
(***************************************************************************)
(* A model of the HLS relay of src/main.rs: the single GET handler          *)
(* m3u8_proxy with its origin gate, query and header parsing, upstream      *)
(* fetch, content classification and playlist line rewriting.               *)
(*                                                                          *)
(* Text is modelled character by character: a string is a sequence of       *)
(* one-character strings, so that prefix tests, trimming, the URI regex,    *)
(* percent-encoding and query parsing are computed as the code computes     *)
(* them.                                                                    *)
(***************************************************************************)
EXTENDS Integers, Sequences, FiniteSets, TLC

(***************************************************************************)
(* Characters and strings                                                   *)
(***************************************************************************)

\* A Rust string literal as a sequence of characters.
Chars(s) == [i \in 1..Len(s) |-> SubSeq(s, i, i)]

None == <<"None">>

\* The printable ASCII characters, in code order: Printable[i] has code 31 + i.
\* (The grave accent, code 96, cannot be written in a TLA+ string: the token
\* "GRAVE" stands for it.)
Printable ==
  Chars(" !\"#$%&'()*+,-./0123456789:;<=>?@ABCDEFGHIJKLMNOPQRSTUVWXYZ[\\]^_")
    \o <<"GRAVE">> \o Chars("abcdefghijklmnopqrstuvwxyz{|}~")

UpperAlpha == Chars("ABCDEFGHIJKLMNOPQRSTUVWXYZ")
LowerAlpha == Chars("abcdefghijklmnopqrstuvwxyz")
Digits == Chars("0123456789")
HexUpper == Chars("0123456789ABCDEF")
HexLower == Chars("0123456789abcdef")

Range(s) == {s[i] : i \in 1..Len(s)}

IndexIn(c, table) == CHOOSE i \in 1..Len(table) : table[i] = c

UpperSet == Range(UpperAlpha)
LowerSet == Range(LowerAlpha)
DigitSet == Range(Digits)
AlnumSet == UpperSet \cup LowerSet \cup DigitSet
PrintableSet == Range(Printable)

IsUpper(c) == c \in UpperSet
IsLower(c) == c \in LowerSet
IsAlpha(c) == IsUpper(c) \/ IsLower(c)
IsDigit(c) == c \in DigitSet
IsAlnum(c) == c \in AlnumSet

\* The byte value of an ASCII character (tab, LF and CR are the only control
\* characters of the model).
CodeTable ==
  [c \in PrintableSet \cup {"\t", "\n", "\r"} |->
     CASE c = "\t" -> 9
       [] c = "\n" -> 10
       [] c = "\r" -> 13
       [] OTHER -> 31 + IndexIn(c, Printable)]

Code(c) == CodeTable[c]

HasChar(n) == n \in {9, 10, 13} \/ (n >= 32 /\ n <= 126)

CharOf(n) ==
  CASE n = 9 -> "\t"
    [] n = 10 -> "\n"
    [] n = 13 -> "\r"
    [] OTHER -> Printable[n - 31]

IsControl(c) == c \in {"\t", "\n", "\r"}

\* char::to_ascii_lowercase
LowerTable == [c \in UpperSet |-> LowerAlpha[IndexIn(c, UpperAlpha)]]
LowerChar(c) == IF IsUpper(c) THEN LowerTable[c] ELSE c

\* str::to_lowercase on ASCII text
ToLower(s) == [i \in 1..Len(s) |-> LowerChar(s[i])]

\* SubSeq that tolerates an empty range.
Slice(s, a, b) == IF a > b THEN <<>> ELSE SubSeq(s, a, b)

\* s[i..] of Rust (1-based here).
From(s, i) == Slice(s, i, Len(s))

\* True iff p occurs in s at position i.
MatchAt(s, i, p) ==
  /\ i >= 1
  /\ i + Len(p) - 1 <= Len(s)
  /\ \A k \in 1..Len(p) : s[i + k - 1] = p[k]

\* str::starts_with, str::ends_with, str::contains
StartsWith(s, p) == MatchAt(s, 1, p)
EndsWith(s, p) == MatchAt(s, Len(s) - Len(p) + 1, p)
Contains(s, p) == \E i \in 1..(Len(s) + 1) : MatchAt(s, i, p)

Min(S) == CHOOSE x \in S : \A y \in S : x <= y

\* Position of the first character of s at or after i that is in set cs, or 0.
FindAny(s, i, cs) ==
  LET hits == {j \in i..Len(s) : s[j] \in cs} IN IF hits = {} THEN 0 ELSE Min(hits)

\* Position of the first occurrence of character c in s at or after i, or 0.
FindChar(s, i, c) == FindAny(s, i, {c})

\* Concatenation of the strings ss[a..b].
RECURSIVE ConcatRange(_, _, _)
ConcatRange(ss, a, b) ==
  IF a > b THEN <<>>
  ELSE IF a = b THEN ss[a]
  ELSE ConcatRange(ss, a, (a + b) \div 2) \o ConcatRange(ss, ((a + b) \div 2) + 1, b)

\* Concatenation of a sequence of strings.
Concat(ss) == ConcatRange(ss, 1, Len(ss))

\* [String]::join(sep)
Join(ss, sep) ==
  IF ss = <<>> THEN <<>>
  ELSE Concat([i \in 1..(2 * Len(ss) - 1) |-> IF i % 2 = 1 THEN ss[(i + 1) \div 2] ELSE sep])

\* str::split(c): the pieces of s between occurrences of the character c.
Split(s, c) ==
  LET at == SelectSeq([i \in 1..Len(s) |-> i], LAMBDA i : s[i] = c) IN
    [k \in 1..(Len(at) + 1) |->
       Slice(s, IF k = 1 THEN 1 ELSE at[k - 1] + 1,
                IF k <= Len(at) THEN at[k] - 1 ELSE Len(s))]

(***************************************************************************)
(* Percent-encoding and query-string parsing                                *)
(***************************************************************************)

\* urlencoding::encode keeps ASCII letters, digits and - _ . ~ and writes
\* every other byte as %XX with upper-case hex digits.
IsUnreserved(c) == IsAlnum(c) \/ c \in {"-", "_", ".", "~"}

\* %XX for the byte of c.
Escape(c) == <<"%", HexUpper[(Code(c) \div 16) + 1], HexUpper[(Code(c) % 16) + 1]>>

EncodeChar(c) == IF IsUnreserved(c) THEN <<c>> ELSE Escape(c)

urlencoding_encode(s) == Concat([i \in 1..Len(s) |-> EncodeChar(s[i])])

HexSet == Range(HexUpper) \cup Range(HexLower)
IsHex(c) == c \in HexSet
HexVal(c) ==
  IF c \in Range(HexUpper) THEN IndexIn(c, HexUpper) - 1 ELSE IndexIn(c, HexLower) - 1

\* A decoded byte outside the characters of the model is kept as one token.
DecodedChar(n) == IF HasChar(n) THEN CharOf(n) ELSE "OTHERBYTE"

\* form_urlencoded decoding of one name or value: '+' becomes a space, %XX
\* becomes the byte XX, and a '%' not followed by two hex digits stays.
\* (An escape starts at a '%' followed by two hex digits; escapes cannot overlap.)
EscapeAt(s, i) ==
  i >= 1 /\ i + 2 <= Len(s) /\ s[i] = "%" /\ IsHex(s[i + 1]) /\ IsHex(s[i + 2])

form_decode(s) ==
  Concat([i \in 1..Len(s) |->
            IF EscapeAt(s, i) THEN <<DecodedChar(16 * HexVal(s[i + 1]) + HexVal(s[i + 2]))>>
            ELSE IF EscapeAt(s, i - 1) \/ EscapeAt(s, i - 2) THEN <<>>
            ELSE IF s[i] = "+" THEN <<" ">>
            ELSE <<s[i]>>])

\* form_urlencoded::parse: the non-empty pieces between '&', each split at its
\* first '=' into a decoded name and a decoded value.
ParsePair(piece) ==
  LET eq == FindChar(piece, 1, "=") IN
    IF eq = 0 THEN [name |-> form_decode(piece), value |-> <<>>]
    ELSE [name |-> form_decode(Slice(piece, 1, eq - 1)),
          value |-> form_decode(From(piece, eq + 1))]

form_parse(qs) ==
  LET pieces == SelectSeq(Split(qs, "&"), LAMBDA p : p # <<>>) IN
    [i \in 1..Len(pieces) |-> ParsePair(pieces[i])]

\* The values the pairs give to one field, in order.
FieldValues(pairs, field) ==
  LET hits == SelectSeq(pairs, LAMBDA p : p.name = Chars(field)) IN
    [i \in 1..Len(hits) |-> hits[i].value]

\* Query::<QueryParams>::from_query: url is required, headers and origin are
\* optional, a field given twice is an error, other fields are ignored.
QueryParams_from_query(qs) ==
  LET Fields(us, hs, os) ==
        IF Len(us) # 1 \/ Len(hs) > 1 \/ Len(os) > 1
          THEN [ok |-> FALSE]
          ELSE [ok |-> TRUE,
                url |-> us[1],
                headers |-> IF hs = <<>> THEN None ELSE <<"Some", hs[1]>>,
                origin |-> IF os = <<>> THEN None ELSE <<"Some", os[1]>>]
      OfPairs(pairs) ==
        Fields(FieldValues(pairs, "url"), FieldValues(pairs, "headers"),
               FieldValues(pairs, "origin"))
  IN OfPairs(form_parse(qs))

IsSome(o) == o # None
Unwrap(o) == o[2]
Some(v) == <<"Some", v>>

(***************************************************************************)
(* URLs: Url::parse and Url::join of the url crate, for the http family     *)
(* of schemes.  Not modelled, and absent from every input of the model:     *)
(* credentials (user:password@), IPv6 and IDNA hosts, backslashes, file:    *)
(* URLs and percent-encoded dot segments.                                   *)
(***************************************************************************)

Err == [ok |-> FALSE]
Ok(v) == [ok |-> TRUE, val |-> v]

SpecialSchemes == {Chars("http"), Chars("https"), Chars("ws"), Chars("wss"), Chars("ftp")}

DefaultPort(scheme) ==
  CASE scheme \in {Chars("http"), Chars("ws")} -> 80
    [] scheme \in {Chars("https"), Chars("wss")} -> 443
    [] scheme = Chars("ftp") -> 21
    [] OTHER -> -1

\* Leading and trailing C0 controls and spaces are trimmed, then every tab,
\* LF and CR is removed.
IsC0OrSpace(c) == IsControl(c) \/ c = " "

RECURSIVE FirstKept(_, _)
FirstKept(s, i) ==
  IF i > Len(s) THEN i ELSE IF IsC0OrSpace(s[i]) THEN FirstKept(s, i + 1) ELSE i

RECURSIVE LastKept(_, _)
LastKept(s, i) ==
  IF i < 1 THEN i ELSE IF IsC0OrSpace(s[i]) THEN LastKept(s, i - 1) ELSE i

UrlInput(s) ==
  SelectSeq(Slice(s, FirstKept(s, 1), LastKept(s, Len(s))),
            LAMBDA c : c \notin {"\t", "\n", "\r"})

\* The position of the ':' ending a scheme at the start of s, or 0.
RECURSIVE SchemeEndFrom(_, _)
SchemeEndFrom(s, i) ==
  IF i > Len(s) THEN 0
  ELSE IF s[i] = ":" THEN i
  ELSE IF IsAlnum(s[i]) \/ s[i] \in {"+", "-", "."} THEN SchemeEndFrom(s, i + 1)
  ELSE 0

SchemeEnd(s) == IF s # <<>> /\ IsAlpha(s[1]) THEN SchemeEndFrom(s, 2) ELSE 0

\* Percent-encode sets of the url crate.
PathSet == {" ", "\"", "#", "<", ">", "?", "GRAVE", "{", "}"}
QuerySet == {" ", "\"", "#", "<", ">", "'"}
FragmentSet == {" ", "\"", "<", ">", "GRAVE"}
ForbiddenHost ==
  {" ", "#", "/", ":", "<", ">", "?", "@", "[", "\\", "]", "^", "|", "%", "\t", "\n", "\r"}

EncodeIn(s, set) ==
  Concat([i \in 1..Len(s) |->
            IF s[i] \in set \/ IsControl(s[i]) THEN Escape(s[i]) ELSE <<s[i]>>])

\* Decimal numbers, for ports.
RECURSIVE ParseNat(_, _)
ParseNat(ds, acc) ==
  IF ds = <<>> THEN acc
  ELSE ParseNat(Tail(ds), IF acc > 65535 THEN acc ELSE 10 * acc + (IndexIn(Head(ds), Digits) - 1))

RECURSIVE ShowNat(_)
ShowNat(n) == IF n < 10 THEN <<Digits[n + 1]>> ELSE ShowNat(n \div 10) \o <<Digits[(n % 10) + 1]>>

\* Dot segments: the segments of a path pushed on the directory stack.
RECURSIVE PushSegments(_, _, _)
PushSegments(stack, segs, i) ==
  LET seg == segs[i]
      last == (i = Len(segs))
      popped == IF stack = <<>> THEN <<>> ELSE SubSeq(stack, 1, Len(stack) - 1)
      next == IF seg = Chars("..") THEN (IF last THEN Append(popped, <<>>) ELSE popped)
              ELSE IF seg = Chars(".") THEN (IF last THEN Append(stack, <<>>) ELSE stack)
              ELSE Append(stack, EncodeIn(seg, PathSet))
  IN IF last THEN next ELSE PushSegments(next, segs, i + 1)

PathOf(stack) == <<"/">> \o Join(stack, <<"/">>)

\* The directory of a serialized path: its segments but the last.
DirSegments(path) ==
  LET segs == Split(From(path, 2), "/") IN SubSeq(segs, 1, Len(segs) - 1)

\* Splits what follows the path into query and fragment.
Tail3(s) ==
  LET h == FindChar(s, 1, "#")
      Parts(beforeH, fragment) ==
        LET q == FindChar(beforeH, 1, "?") IN
          [path |-> IF q = 0 THEN beforeH ELSE Slice(beforeH, 1, q - 1),
           query |-> IF q = 0 THEN None ELSE Some(EncodeIn(From(beforeH, q + 1), QuerySet)),
           fragment |-> fragment]
  IN Parts(IF h = 0 THEN s ELSE Slice(s, 1, h - 1),
           IF h = 0 THEN None ELSE Some(EncodeIn(From(s, h + 1), FragmentSet)))

\* Number of leading '/' of s.
RECURSIVE SlashCount(_, _)
SlashCount(s, i) == IF i <= Len(s) /\ s[i] = "/" THEN SlashCount(s, i + 1) ELSE i - 1

\* After "scheme://": authority, then path, query and fragment.
AfterDoubleSlash(scheme, rest) ==
  LET Build(host, portText, t) ==
        LET portOk == \A i \in 1..Len(portText) : IsDigit(portText[i])
            portNum == IF portText = <<>> THEN -1 ELSE ParseNat(portText, 0)
            segs == IF t.path = <<>> THEN << <<>> >> ELSE Split(From(t.path, 2), "/")
        IN IF host = <<>> THEN Err
           ELSE IF \E i \in 1..Len(host) : host[i] \in ForbiddenHost THEN Err
           ELSE IF ~portOk \/ portNum > 65535 THEN Err
           ELSE Ok([scheme |-> scheme,
                    special |-> TRUE,
                    host |-> ToLower(host),
                    port |-> IF portNum = -1 \/ portNum = DefaultPort(scheme) THEN None
                             ELSE Some(ShowNat(portNum)),
                    path |-> PathOf(PushSegments(<<>>, segs, 1)),
                    query |-> t.query,
                    fragment |-> t.fragment])
      HostPort(authority, after) ==
        LET colon == FindChar(authority, 1, ":") IN
          Build(IF colon = 0 THEN authority ELSE Slice(authority, 1, colon - 1),
                IF colon = 0 THEN <<>> ELSE From(authority, colon + 1),
                Tail3(after))
      e == FindAny(rest, 1, {"/", "?", "#"})
  IN HostPort(IF e = 0 THEN rest ELSE Slice(rest, 1, e - 1),
              IF e = 0 THEN <<>> ELSE From(rest, e))

\* A URL with a scheme outside the http family: kept as scheme plus the rest.
NonSpecial(scheme, rest) ==
  LET Build(t) ==
        Ok([scheme |-> scheme, special |-> FALSE, host |-> <<>>, port |-> None,
            path |-> EncodeIn(t.path, {}), query |-> t.query, fragment |-> t.fragment])
  IN Build(Tail3(rest))

\* A reference without a scheme, resolved against a base of the http family.
ParseRelative(in, base) ==
  LET PathQueryFragment(t) ==
        IF in[1] = "?"
          THEN Ok([base EXCEPT !.query = t.query, !.fragment = t.fragment])
        ELSE IF in[1] = "/"
          THEN Ok([base EXCEPT !.path = PathOf(PushSegments(<<>>, Split(From(t.path, 2), "/"), 1)),
                               !.query = t.query, !.fragment = t.fragment])
        ELSE Ok([base EXCEPT !.path = PathOf(PushSegments(DirSegments(base.path), Split(t.path, "/"), 1)),
                             !.query = t.query, !.fragment = t.fragment])
  IN IF in = <<>> THEN Ok([base EXCEPT !.fragment = None])
     ELSE IF in[1] = "#"
       THEN Ok([base EXCEPT !.fragment = Some(EncodeIn(From(in, 2), FragmentSet))])
     ELSE IF in[1] = "/" /\ SlashCount(in, 1) >= 2
       THEN AfterDoubleSlash(base.scheme, From(in, SlashCount(in, 1) + 1))
     ELSE PathQueryFragment(Tail3(in))

\* Url::parse(s)
Url_parse(s) ==
  LET WithScheme(in, se) ==
        LET scheme == ToLower(Slice(in, 1, se - 1))
            rest == From(in, se + 1)
        IN IF se = 0 THEN Err
           ELSE IF scheme \in SpecialSchemes
             THEN AfterDoubleSlash(scheme, From(rest, SlashCount(rest, 1) + 1))
           ELSE NonSpecial(scheme, rest)
      OfInput(in) == WithScheme(in, SchemeEnd(in))
  IN OfInput(UrlInput(s))

\* base.join(s), for a base of the http family
Url_join(base, s) ==
  LET WithScheme(in, se) ==
        LET scheme == ToLower(Slice(in, 1, se - 1))
            rest == From(in, se + 1)
        IN IF se = 0 THEN ParseRelative(in, base)
           ELSE IF scheme \in SpecialSchemes
             THEN IF SlashCount(rest, 1) < 2 /\ scheme = base.scheme
                    THEN ParseRelative(rest, base)
                    ELSE AfterDoubleSlash(scheme, From(rest, SlashCount(rest, 1) + 1))
           ELSE NonSpecial(scheme, rest)
      OfInput(in) == WithScheme(in, SchemeEnd(in))
  IN OfInput(UrlInput(s))

\* Url::as_str
Url_as_str(u) ==
  u.scheme \o <<":">>
    \o (IF u.special
          THEN <<"/", "/">> \o u.host
                 \o (IF IsSome(u.port) THEN <<":">> \o Unwrap(u.port) ELSE <<>>)
          ELSE <<>>)
    \o u.path
    \o (IF IsSome(u.query) THEN <<"?">> \o Unwrap(u.query) ELSE <<>>)
    \o (IF IsSome(u.fragment) THEN <<"#">> \o Unwrap(u.fragment) ELSE <<>>)

\* Resolve relative or absolute URLs
get_url(line, base) ==
  LET OrJoin(absolute) == IF absolute.ok THEN absolute ELSE Url_join(base, line) IN
    OrJoin(Url_parse(line))

(***************************************************************************)
(* The headers JSON: serde_json::from_str::<HashMap<String, String>>, and   *)
(* the header names and values of the http crate.  The escapes \b, \f and   *)
(* \uXXXX are not modelled and are absent from every input of the model.    *)
(***************************************************************************)

JsonWs == {" ", "\t", "\n", "\r"}

\* The first position at or after i that holds no whitespace.
SkipWs(s, i) ==
  LET solid == {j \in i..Len(s) : s[j] \notin JsonWs} IN
    IF solid = {} THEN Len(s) + 1 ELSE Min(solid)

\* The characters of a JSON string whose opening quote is before position i:
\* [ok, str, next], next being the position after the closing quote.
\* (The scan goes from one quote or backslash to the next.)
RECURSIVE ScanString(_, _, _)
ScanString(s, i, acc) ==
  LET j == FindAny(s, i, {"\"", "\\"})
      plain == Slice(s, i, j - 1)
  IN IF j = 0 THEN [ok |-> FALSE]
     ELSE IF \E k \in 1..Len(plain) : IsControl(plain[k]) THEN [ok |-> FALSE]
     ELSE IF s[j] = "\"" THEN [ok |-> TRUE, str |-> acc \o plain, next |-> j + 1]
     ELSE IF j + 1 > Len(s) THEN [ok |-> FALSE]
     ELSE IF s[j + 1] \in {"\"", "\\", "/"} THEN ScanString(s, j + 2, acc \o plain \o <<s[j + 1]>>)
     ELSE IF s[j + 1] = "n" THEN ScanString(s, j + 2, acc \o plain \o <<"\n">>)
     ELSE IF s[j + 1] = "r" THEN ScanString(s, j + 2, acc \o plain \o <<"\r">>)
     ELSE IF s[j + 1] = "t" THEN ScanString(s, j + 2, acc \o plain \o <<"\t">>)
     ELSE [ok |-> FALSE]

JsonString(s, i) ==
  IF i <= Len(s) /\ s[i] = "\"" THEN ScanString(s, i + 1, <<>>) ELSE [ok |-> FALSE]

\* The members of an object from position i (a key is expected there), up to
\* and including the closing brace: [ok, pairs, next].
RECURSIVE JsonMembers(_, _, _)
JsonMembers(s, i, acc) ==
  LET AfterValue(k, v) ==
        IF ~v.ok THEN [ok |-> FALSE]
        ELSE LET d == SkipWs(s, v.next)
                 pairs == Append(acc, [key |-> k.str, value |-> v.str])
             IN IF d > Len(s) THEN [ok |-> FALSE]
                ELSE IF s[d] = "}" THEN [ok |-> TRUE, pairs |-> pairs, next |-> d + 1]
                ELSE IF s[d] = "," THEN JsonMembers(s, d + 1, pairs)
                ELSE [ok |-> FALSE]
      AfterKey(k) ==
        IF ~k.ok THEN [ok |-> FALSE]
        ELSE LET c == SkipWs(s, k.next) IN
          IF c > Len(s) \/ s[c] # ":" THEN [ok |-> FALSE]
          ELSE AfterValue(k, JsonString(s, SkipWs(s, c + 1)))
  IN AfterKey(JsonString(s, SkipWs(s, i)))

\* The key/value pairs of a JSON object of strings, in text order.
JsonPairs(s) ==
  LET open == SkipWs(s, 1)
      first == SkipWs(s, open + 1)
      Closed(body) ==
        IF ~body.ok THEN [ok |-> FALSE]
        ELSE IF SkipWs(s, body.next) <= Len(s) THEN [ok |-> FALSE]
        ELSE [ok |-> TRUE, pairs |-> body.pairs]
  IN IF open > Len(s) \/ s[open] # "{" THEN [ok |-> FALSE]
     ELSE Closed(IF first <= Len(s) /\ s[first] = "}"
                   THEN [ok |-> TRUE, pairs |-> <<>>, next |-> first + 1]
                   ELSE JsonMembers(s, open + 1, <<>>))

\* The HashMap the pairs build: a later pair replaces an earlier one of the
\* same key.
MapOfPairs(pairs) ==
  [k \in {pairs[i].key : i \in 1..Len(pairs)} |->
     pairs[CHOOSE i \in 1..Len(pairs) :
             /\ pairs[i].key = k
             /\ \A j \in (i + 1)..Len(pairs) : pairs[j].key # k].value]

serde_json_from_str(s) ==
  LET OfPairs(r) == IF r.ok THEN Ok(MapOfPairs(r.pairs)) ELSE Err IN OfPairs(JsonPairs(s))

\* HeaderName::try_from: a non-empty token, normalised to lower case.
IsTchar(c) ==
  IsAlnum(c) \/ c \in {"!", "#", "$", "%", "&", "'", "*", "+", "-", ".", "^", "_", "GRAVE", "|", "~"}

HeaderName_try_from(k) ==
  IF k # <<>> /\ \A i \in 1..Len(k) : IsTchar(k[i]) THEN Ok(ToLower(k)) ELSE Err

\* HeaderValue::from_str: visible ASCII, space and tab.
HeaderValue_from_str(v) ==
  IF \A i \in 1..Len(v) : (v[i] = "\t" \/ ~IsControl(v[i])) THEN Ok(v) ELSE Err

\* HeaderMap::insert: the value replaces any value the name had.
Insert(map, name, value) ==
  [n \in DOMAIN map \cup {name} |-> IF n = name THEN value ELSE map[n]]

Get(map, name) == IF name \in DOMAIN map THEN Some(map[name]) ELSE None

(***************************************************************************)
(* Playlist rewriting (the closure of m3u8_proxy applied to each line)      *)
(***************************************************************************)

LINE_LIMIT == 200000
MAX_BODY_BYTES == 10000000
MAX_HEADERS == 50

\* str::lines: pieces end at '\n'; a piece that ended at '\n' also loses one
\* '\r' before it; no line follows a final '\n'.
str_lines(text) ==
  LET pieces == Split(text, "\n")
      n == Len(pieces)
      strip(p) == IF p # <<>> /\ p[Len(p)] = "\r" THEN SubSeq(p, 1, Len(p) - 1) ELSE p
      kept == IF pieces[n] = <<>> THEN n - 1 ELSE n
  IN [i \in 1..kept |-> IF i < n THEN strip(pieces[i]) ELSE pieces[i]]

\* Iterator::take
Take(seq, n) == IF Len(seq) <= n THEN seq ELSE SubSeq(seq, 1, n)

\* str::trim().is_empty()
IsBlank(line) == \A i \in 1..Len(line) : line[i] \in {" ", "\t", "\n", "\r"}

MAP_PREFIX == Chars("#EXT-X-MAP:URI=\"")

\* str::trim_start_matches(prefix): the prefix is removed as often as it occurs.
RECURSIVE trim_start_matches(_, _)
trim_start_matches(s, prefix) ==
  IF StartsWith(s, prefix) THEN trim_start_matches(From(s, Len(prefix) + 1), prefix) ELSE s

\* str::trim_end_matches(c): every trailing c is removed.
RECURSIVE trim_end_matches(_, _)
trim_end_matches(s, c) ==
  IF s # <<>> /\ s[Len(s)] = c THEN trim_end_matches(SubSeq(s, 1, Len(s) - 1), c) ELSE s

\* The query of a rewritten reference: url=<encoded>[&headers=<h>].
NewQuery(resolved, headers) ==
  Chars("url=") \o urlencoding_encode(Url_as_str(resolved))
    \o (IF IsSome(headers) THEN Chars("&headers=") \o Unwrap(headers) ELSE <<>>)

\* URI_REGEX, (?i)(URI|URL)="([^"]+)": the match starting at position i, if any.
RegexAt(line, i) ==
  LET close == FindChar(line, i + 5, "\"") IN
    IF /\ i + 5 <= Len(line)
       /\ ToLower(SubSeq(line, i, i + 2)) \in {Chars("uri"), Chars("url")}
       /\ line[i + 3] = "="
       /\ line[i + 4] = "\""
       /\ close > i + 5
      THEN [ok |-> TRUE, start |-> i, end |-> close,
            key |-> SubSeq(line, i, i + 2), url |-> SubSeq(line, i + 5, close - 1)]
      ELSE [ok |-> FALSE]

\* The leftmost match.
URI_REGEX_captures(line) ==
  LET starts == {i \in 1..Len(line) : RegexAt(line, i).ok} IN
    IF starts = {} THEN [ok |-> FALSE] ELSE RegexAt(line, Min(starts))
URI_REGEX_is_match(line) == URI_REGEX_captures(line).ok

\* The last position of the group name that starts at position i of a
\* replacement text (i - 1 when there is none).
NameEnd(t, i) ==
  LET stops == {j \in i..Len(t) : ~(IsAlnum(t[j]) \/ t[j] = "_")} IN
    IF stops = {} THEN Len(t) ELSE Min(stops) - 1

\* A group reference names group 0, 1 or 2 of the match; any other name is
\* an empty text.
GroupText(name, m) ==
  IF name # <<>> /\ (\A i \in 1..Len(name) : IsDigit(name[i]))
    THEN (CASE ParseNat(name, 0) = 0 -> SubSeq(m.line, m.start, m.end)
            [] ParseNat(name, 0) = 1 -> m.key
            [] ParseNat(name, 0) = 2 -> m.url
            [] OTHER -> <<>>)
    ELSE <<>>

\* Captures::expand: $$ is a dollar, $name and ${name} are group references.
\* (The expansion goes from one dollar to the next.)
RECURSIVE Expand(_, _, _)
Expand(t, from, m) ==
  LET i == FindChar(t, from, "$")
      plain == Slice(t, from, i - 1)
  IN IF i = 0 THEN From(t, from)
     ELSE IF i + 1 <= Len(t) /\ t[i + 1] = "$" THEN plain \o <<"$">> \o Expand(t, i + 2, m)
     ELSE IF i + 1 <= Len(t) /\ t[i + 1] = "{"
       THEN LET close == FindChar(t, i + 2, "}") IN
              IF close = 0 THEN plain \o <<"$">> \o Expand(t, i + 1, m)
              ELSE plain \o GroupText(Slice(t, i + 2, close - 1), m) \o Expand(t, close + 1, m)
     ELSE LET e == NameEnd(t, i + 1) IN
            IF e = i THEN plain \o <<"$">> \o Expand(t, i + 1, m)
            ELSE plain \o GroupText(Slice(t, i + 1, e), m) \o Expand(t, e + 1, m)

\* Regex::replace: the leftmost match is replaced by the expanded replacement.
URI_REGEX_replace(line, replacement) ==
  LET Replaced(c) ==
        IF ~c.ok THEN line
        ELSE Slice(line, 1, c.start - 1)
               \o Expand(replacement, 1,
                         [line |-> line, start |-> c.start, end |-> c.end,
                          key |-> c.key, url |-> c.url])
               \o From(line, c.end + 1)
  IN Replaced(URI_REGEX_captures(line))

\* The '#EXT-X-MAP:URI="' branch.
RewriteMap(line, target_url, headers) ==
  LET inner_url == trim_end_matches(trim_start_matches(line, MAP_PREFIX), "\"")
      Emit(resolved) ==
        IF ~resolved.ok THEN line
        ELSE MAP_PREFIX \o Chars("/?") \o NewQuery(resolved.val, headers) \o <<"\"">>
  IN Emit(get_url(inner_url, target_url))

\* The URI_REGEX branch.
RewriteAttribute(line, target_url, headers) ==
  LET Emit(caps, resolved) ==
        IF ~resolved.ok THEN line
        ELSE URI_REGEX_replace(line,
               caps.key \o Chars("=\"/?") \o NewQuery(resolved.val, headers) \o <<"\"">>)
      OfCaptures(caps) == Emit(caps, get_url(caps.url, target_url))
  IN OfCaptures(URI_REGEX_captures(line))

\* A variant of RewriteSegment that drops a segment line it cannot resolve.
RewriteSegment_drop_unresolved(line, target_url, headers) ==
  LET Emit(resolved) ==
        IF ~resolved.ok THEN <<>>
        ELSE Chars("/?") \o NewQuery(resolved.val, headers)
  IN Emit(get_url(line, target_url))

\* The bare segment branch.
RewriteSegment(line, target_url, headers) ==
  LET Emit(resolved) ==
        IF ~resolved.ok THEN line
        ELSE Chars("/?") \o NewQuery(resolved.val, headers)
  IN Emit(get_url(line, target_url))

\* The closure mapped over the lines.
RewriteLine(line, target_url, headers) ==
  IF StartsWith(line, <<"#">>) \/ IsBlank(line)
    THEN IF StartsWith(line, MAP_PREFIX) THEN RewriteMap(line, target_url, headers)
         ELSE IF URI_REGEX_is_match(line) THEN RewriteAttribute(line, target_url, headers)
         ELSE line
    ELSE RewriteSegment(line, target_url, headers)

\* lines 194-247: the rewritten lines of a playlist text.
RewriteLines(m3u8_text, target_url, headers) ==
  LET Mapped(in) == [i \in 1..Len(in) |-> RewriteLine(in[i], target_url, headers)] IN
    Mapped(Take(str_lines(m3u8_text), LINE_LIMIT))

(***************************************************************************)
(* The origin gate                                                          *)
(***************************************************************************)

ALLOWED_ORIGINS ==
  {Chars("http://localhost:5173"), Chars("http://localhost:3000"), Chars("http://aniwave.at")}

\* HeaderValue::to_str: the text of a value made of visible ASCII and tabs.
to_str(v) ==
  IF \A i \in 1..Len(v) : v[i] \in PrintableSet \/ v[i] = "\t" THEN Ok(v) ELSE Err

\* A variant of is_allowed_origin that falls back to the Referer also when an
\* Origin header is present and not allowed.
is_allowed_origin_referer_fallback(cors, r) ==
  IF ~cors THEN TRUE
  ELSE IF IsSome(r.origin) /\ to_str(Unwrap(r.origin)).ok /\ Unwrap(r.origin) \in ALLOWED_ORIGINS
    THEN TRUE
  ELSE IF IsSome(r.referer) /\ to_str(Unwrap(r.referer)).ok
    THEN \E allowed \in ALLOWED_ORIGINS : StartsWith(Unwrap(r.referer), allowed)
  ELSE FALSE

\* Check if the request origin is allowed
is_allowed_origin(cors, r) ==
  IF ~cors THEN TRUE
  ELSE IF IsSome(r.origin)
    THEN to_str(Unwrap(r.origin)).ok /\ Unwrap(r.origin) \in ALLOWED_ORIGINS
  ELSE IF IsSome(r.referer) /\ to_str(Unwrap(r.referer)).ok
    THEN \E allowed \in ALLOWED_ORIGINS : StartsWith(Unwrap(r.referer), allowed)
  ELSE FALSE

(***************************************************************************)
(* Content classification                                                   *)
(***************************************************************************)

M3U8_MIME_TYPES ==
  {Chars("mpegurl"), Chars("application/vnd.apple.mpegurl"), Chars("application/x-mpegurl")}

\* Check if response is an m3u8 playlist
is_m3u8(url, content_type) ==
  \/ EndsWith(url.path, Chars(".m3u8"))
  \/ \E mime \in M3U8_MIME_TYPES : Contains(content_type, mime)

(***************************************************************************)
(* Inputs of the model                                                      *)
(***************************************************************************)

\* The longest playlist the upstream serves, in lines.
MaxLines == 2

\* Values of the inbound Origin, Referer and Range headers.
GoodOrigin == Some(Chars("http://localhost:3000"))
BadOrigin == Some(Chars("http://evil.example"))
GoodReferer == Some(Chars("http://aniwave.at/watch/1"))
BadReferer == Some(Chars("http://evil.example/"))
ClientRange == Some(Chars("bytes=0-99"))

\* The inbound Origin, Referer and Range headers of a request.
InboundHeaders ==
  { [origin |-> None, referer |-> None, range |-> None],
    [origin |-> None, referer |-> None, range |-> ClientRange],
    [origin |-> GoodOrigin, referer |-> None, range |-> None],
    [origin |-> GoodOrigin, referer |-> BadReferer, range |-> ClientRange],
    [origin |-> BadOrigin, referer |-> None, range |-> None],
    [origin |-> BadOrigin, referer |-> GoodReferer, range |-> ClientRange],
    [origin |-> None, referer |-> GoodReferer, range |-> None],
    [origin |-> None, referer |-> BadReferer, range |-> None] }

PlaylistUrl == Chars("http://example.com/dir/a.m3u8")
SegmentUrl == Chars("http://example.com/v/seg.ts")

\* A query string as a client writes it: every value percent-encoded.
QueryString(url, hdrs, org) ==
  Chars("url=") \o urlencoding_encode(url)
    \o (IF IsSome(hdrs) THEN Chars("&headers=") \o urlencoding_encode(Unwrap(hdrs)) ELSE <<>>)
    \o (IF IsSome(org) THEN Chars("&origin=") \o urlencoding_encode(Unwrap(org)) ELSE <<>>)

QueryStrings ==
  { QueryString(PlaylistUrl, None, None),
    QueryString(PlaylistUrl, Some(Chars("{\"Authorization\":\"Bearer x\"}")), None),
    QueryString(PlaylistUrl, Some(Chars("{\"X-Tok\":\"a+b&c\"}")), None),
    QueryString(PlaylistUrl, Some(Chars("{\"X-Tok\":\"a\"}\n")), None),
    QueryString(PlaylistUrl,
                Some(Chars("{\"RANGE\":\"bytes=5-\",\"ORIGIN\":\"http://evil.example\"}")),
                Some(Chars("http://player.example"))),
    QueryString(SegmentUrl, Some(Chars("{\"origin\":\"http://a.example\",\"Origin\":\"http://b.example\"}")), None),
    QueryString(SegmentUrl, None, Some(Chars("http://player.example"))),
    <<>>,
    Chars("url=a&url=b"),
    QueryString(Chars("dir/a.m3u8"), None, None),
    QueryString(PlaylistUrl, Some(Chars("[1]")), None),
    QueryString(PlaylistUrl, Some(Chars("{\"bad name\":\"v\"}")), None),
    QueryString(PlaylistUrl, None, Some(Chars("a\nb"))) }

Requests ==
  { [origin |-> h.origin, referer |-> h.referer, range |-> h.range, query_string |-> q] :
      h \in InboundHeaders, q \in QueryStrings }

\* What the upstream answers: a status and a Content-Type.
UpstreamHeads ==
  { [status |-> 200, content_type |-> Some(Chars("application/vnd.apple.mpegurl"))],
    [status |-> 200, content_type |-> Some(Chars("Application/X-MPEGURL"))],
    [status |-> 206, content_type |-> Some(Chars("video/mp2t"))],
    [status |-> 404, content_type |-> None] }

\* The lines the upstream's playlists are made of.
PlaylistLines ==
  << Chars("#EXTM3U"),
     Chars("#EXT-X-MAP:URI=\"init.mp4\",BYTERANGE=\"720@0\""),
     Chars("#EXT-X-MAP:URI=\"//\""),
     Chars("#EXT-X-MEDIA:TYPE=AUDIO,uri=\"http://cdn.example.com/a.m3u8\",URL=\"b.m3u8\""),
     Chars("#EXT-X-KEY:METHOD=AES-128,URI=\"//\""),
     Chars("seg1.ts\r"),
     Chars("//"),
     <<>> >>

\* The playlists: at most MaxLines of the lines, in their order, joined by LF.
RECURSIVE Picks(_, _)
Picks(from, n) ==
  IF n = 0 \/ from > Len(PlaylistLines) THEN {<<>>}
  ELSE Picks(from + 1, n)
         \cup {<<PlaylistLines[from]>> \o rest : rest \in Picks(from + 1, n - 1)}

Bodies == {Join(ls, <<"\n">>) : ls \in Picks(1, MaxLines)}

(***************************************************************************)
(* The handler                                                              *)
(***************************************************************************)

VARIABLES
  enable_cors,   \* ENABLE_CORS
  pc,            \* where the handler is: idle, send, text, done
  req,           \* the HttpRequest
  origin,        \* the value for Access-Control-Allow-Origin
  query,         \* the parsed QueryParams
  target_url,    \* the parsed url parameter
  headers,       \* the HeaderMap sent upstream
  status,        \* the upstream status
  content_type,  \* the upstream Content-Type
  m3u8_text,     \* the playlist text read from upstream
  lines,         \* the rewritten lines
  response,      \* the HttpResponse returned
  fetches        \* upstream GET requests issued

vars ==
  <<enable_cors, pc, req, origin, query, target_url, headers, status, content_type,
    m3u8_text, lines, response, fetches>>

ACAO == "access-control-allow-origin"
CONTENT_TYPE == "content-type"

NoHeaders == [n \in {} |-> <<>>]

TextBody(t) == [kind |-> "text", text |-> t]
StreamBody == [kind |-> "stream", text |-> <<>>]

HttpResponse(st, hdrs, body) == [status |-> st, headers |-> hdrs, body |-> body]

Forbidden ==
  HttpResponse(403, ACAO :> Chars("*"), TextBody(Chars("Access denied: Origin not allowed")))
BadRequest(msg) == HttpResponse(400, NoHeaders, TextBody(Chars(msg)))
InternalServerError(msg) == HttpResponse(500, NoHeaders, TextBody(Chars(msg)))

Init ==
  /\ enable_cors \in BOOLEAN
  /\ pc = "idle"
  /\ req = None
  /\ origin = None
  /\ query = None
  /\ target_url = None
  /\ headers = None
  /\ status = 0
  /\ content_type = None
  /\ m3u8_text = None
  /\ lines = None
  /\ response = None
  /\ fetches = 0

\* return HttpResponse...
Return(r) ==
  /\ pc' = "done"
  /\ response' = r

\* The orders in which a HashMap may yield its keys.
Orders(keys) ==
  {f \in [1..Cardinality(keys) -> keys] : \A i, j \in 1..Cardinality(keys) : f[i] = f[j] => i = j}

\* The HeaderMap after inserting the entries of parsed in the given order.
RECURSIVE InsertAll(_, _, _, _)
InsertAll(map, parsed, order, i) ==
  IF i > Len(order) THEN map
  ELSE InsertAll(Insert(map, HeaderName_try_from(order[i]).val,
                        HeaderValue_from_str(parsed[order[i]]).val),
                 parsed, order, i + 1)

\* A variant of BuildHeaders that inserts the headers JSON last, over the
\* origin parameter and the inbound Range.
BuildHeaders_json_last(r, q, order) ==
  LET Checked(parsed) ==
        LET withOrigin == IF IsSome(q.origin)
                            THEN Insert(NoHeaders, Chars("origin"), Unwrap(q.origin))
                            ELSE NoHeaders
            withRange == IF IsSome(r.range)
                           THEN Insert(withOrigin, Chars("range"), Unwrap(r.range))
                           ELSE withOrigin
        IN IF ~parsed.ok THEN [ok |-> FALSE, msg |-> "Invalid headers JSON"]
           ELSE IF Cardinality(DOMAIN parsed.val) > MAX_HEADERS
             THEN [ok |-> FALSE, msg |-> "Too many headers"]
           ELSE IF \E k \in DOMAIN parsed.val :
                     ~HeaderName_try_from(k).ok \/ ~HeaderValue_from_str(parsed.val[k]).ok
             THEN [ok |-> FALSE, msg |-> "Invalid header format"]
           ELSE IF IsSome(q.origin) /\ ~HeaderValue_from_str(Unwrap(q.origin)).ok
             THEN [ok |-> FALSE, msg |-> "Invalid Origin header"]
           ELSE [ok |-> TRUE, map |-> InsertAll(withRange, parsed.val, order, 1)]
  IN Checked(IF IsSome(q.headers) THEN serde_json_from_str(Unwrap(q.headers)) ELSE Ok(NoHeaders))

\* lines 123-155: the outbound headers, or the 400 that ends the request.
\* [ok, map] or [ok, msg].
BuildHeaders(r, q, order) ==
  LET Checked(parsed) ==
        LET fromJson == IF parsed.ok THEN InsertAll(NoHeaders, parsed.val, order, 1) ELSE NoHeaders
            withOrigin == IF IsSome(q.origin)
                            THEN Insert(fromJson, Chars("origin"), Unwrap(q.origin))
                            ELSE fromJson
            withRange == IF IsSome(r.range)
                           THEN Insert(withOrigin, Chars("range"), Unwrap(r.range))
                           ELSE withOrigin
        IN IF ~parsed.ok THEN [ok |-> FALSE, msg |-> "Invalid headers JSON"]
           ELSE IF Cardinality(DOMAIN parsed.val) > MAX_HEADERS
             THEN [ok |-> FALSE, msg |-> "Too many headers"]
           ELSE IF \E k \in DOMAIN parsed.val :
                     ~HeaderName_try_from(k).ok \/ ~HeaderValue_from_str(parsed.val[k]).ok
             THEN [ok |-> FALSE, msg |-> "Invalid header format"]
           ELSE IF IsSome(q.origin) /\ ~HeaderValue_from_str(Unwrap(q.origin)).ok
             THEN [ok |-> FALSE, msg |-> "Invalid Origin header"]
           ELSE [ok |-> TRUE, map |-> withRange]
  IN Checked(IF IsSome(q.headers) THEN serde_json_from_str(Unwrap(q.headers)) ELSE Ok(NoHeaders))

\* The keys of the headers JSON of q (none when it is absent or malformed).
JsonKeys(q) ==
  LET Keys(parsed) == IF parsed.ok THEN DOMAIN parsed.val ELSE {} IN
    Keys(IF IsSome(q.headers) THEN serde_json_from_str(Unwrap(q.headers)) ELSE Err)

\* m3u8_proxy, from its entry to the upstream request (lines 97-162).
m3u8_proxy(r) ==
  /\ pc = "idle"
  /\ req' = r
  /\ UNCHANGED <<enable_cors, status, content_type, m3u8_text, lines>>
  /\ IF ~is_allowed_origin(enable_cors, r)
       THEN /\ Return(Forbidden)
            /\ UNCHANGED <<origin, query, target_url, headers, fetches>>
       ELSE
         LET o == IF IsSome(r.origin) /\ to_str(Unwrap(r.origin)).ok
                    THEN Unwrap(r.origin) ELSE Chars("*")
             Built(q, u, h) ==
               /\ query' = q
               /\ target_url' = u.val
               /\ IF ~h.ok
                    THEN /\ Return(BadRequest(h.msg))
                         /\ UNCHANGED <<headers, fetches>>
                    ELSE /\ headers' = h.map
                         /\ fetches' = fetches + 1
                         /\ pc' = "send"
                         /\ UNCHANGED response
             Parsed(q, u) ==
               /\ origin' = o
               /\ IF ~q.ok
                    THEN /\ Return(BadRequest("Invalid query parameters"))
                         /\ UNCHANGED <<query, target_url, headers, fetches>>
                  ELSE IF ~u.ok
                    THEN /\ Return(BadRequest("Invalid URL format"))
                         /\ query' = q
                         /\ UNCHANGED <<target_url, headers, fetches>>
                  ELSE \E order \in Orders(JsonKeys(q)) : Built(q, u, BuildHeaders(r, q, order))
             OfQuery(q) == Parsed(q, IF q.ok THEN Url_parse(q.url) ELSE Err)
         IN OfQuery(QueryParams_from_query(r.query_string))

\* A variant of send_err that sends the request a second time.
send_err_retry ==
  /\ pc = "send"
  /\ IF fetches < 2
       THEN /\ fetches' = fetches + 1
            /\ UNCHANGED <<pc, response>>
       ELSE /\ Return(InternalServerError("Failed to fetch target URL: error sending request"))
            /\ UNCHANGED fetches
  /\ UNCHANGED <<enable_cors, req, origin, query, target_url, headers, status, content_type,
                 m3u8_text, lines>>

\* send().await fails (lines 164-167).
send_err ==
  /\ pc = "send"
  /\ Return(InternalServerError("Failed to fetch target URL: error sending request"))
  /\ UNCHANGED <<enable_cors, req, origin, query, target_url, headers, status, content_type,
                 m3u8_text, lines, fetches>>

\* send().await succeeds: classification, and the streamed answer of a
\* non-playlist (lines 165-181 and 255-262).
send_ok(head) ==
  /\ pc = "send"
  /\ status' = head.status
  /\ LET ct == IF IsSome(head.content_type) /\ to_str(Unwrap(head.content_type)).ok
                 THEN Unwrap(head.content_type) ELSE <<>>
     IN /\ content_type' = ct
        /\ IF is_m3u8(target_url, ct)
             THEN /\ pc' = "text"
                  /\ UNCHANGED response
             ELSE Return(HttpResponse(head.status,
                                      (ACAO :> origin) @@ (CONTENT_TYPE :> ct),
                                      StreamBody))
  /\ UNCHANGED <<enable_cors, req, origin, query, target_url, headers, m3u8_text, lines, fetches>>

\* resp.text().await fails (line 190).
text_err ==
  /\ pc = "text"
  /\ Return(InternalServerError("Failed to read m3u8"))
  /\ UNCHANGED <<enable_cors, req, origin, query, target_url, headers, status, content_type,
                 m3u8_text, lines, fetches>>

\* resp.text().await succeeds: the playlist is rewritten (lines 183-252).
text_ok(t) ==
  /\ pc = "text"
  /\ m3u8_text' = t
  /\ IF Len(t) > MAX_BODY_BYTES
       THEN /\ Return(BadRequest("m3u8 file too large"))
            /\ UNCHANGED lines
       ELSE LET Answer(out) ==
                  /\ lines' = out
                  /\ Return(HttpResponse(200,
                              (ACAO :> origin) @@ (CONTENT_TYPE :> Chars("application/vnd.apple.mpegurl")),
                              TextBody(Join(out, <<"\n">>))))
            IN Answer(RewriteLines(t, target_url, query.headers))
  /\ UNCHANGED <<enable_cors, req, origin, query, target_url, headers, status, content_type, fetches>>

Next ==
  \/ \E r \in Requests : m3u8_proxy(r)
  \/ send_err
  \/ \E head \in UpstreamHeads : send_ok(head)
  \/ text_err
  \/ \E t \in Bodies : text_ok(t)

Spec == Init /\ [][Next]_vars

(***************************************************************************)
(* Properties                                                               *)
(***************************************************************************)

Started == pc # "idle"
Done == pc = "done"
\* The playlist was read and the answer is the rewritten one.
PlaylistRead == Done /\ m3u8_text # None
Rewritten == PlaylistRead /\ response.status = 200
InLines == Take(str_lines(m3u8_text), LINE_LIMIT)
UrlPrefix == Chars("/?url=")

\* The origin validator's denial, as section 4.1 states it.
Denied ==
  /\ enable_cors
  /\ IF IsSome(req.origin) THEN Unwrap(req.origin) \notin ALLOWED_ORIGINS
     ELSE IF IsSome(req.referer)
       THEN ~\E allowed \in ALLOWED_ORIGINS : StartsWith(Unwrap(req.referer), allowed)
     ELSE TRUE

\* C1: a request the origin validator denies while restriction is enabled is
\* answered 403 and no upstream fetch is issued for it, whatever its query
\* string.
C1_DeniedIsForbiddenWithoutFetch ==
  (Started /\ Denied) => (Done /\ response.status = 403 /\ fetches = 0)

\* C1 witness: a denied request whose query string is a valid one.
C1_Witness ==
  /\ Started /\ Denied
  /\ req.query_string = QueryString(PlaylistUrl, None, None)
  /\ response.status = 403

\* C2: every response carries an Access-Control-Allow-Origin header that is
\* the wildcard or the caller's own Origin.
C2_EveryResponseHasAllowOrigin ==
  Done =>
    /\ ACAO \in DOMAIN response.headers
    /\ \/ response.headers[ACAO] = Chars("*")
       \/ (IsSome(req.origin) /\ response.headers[ACAO] = Unwrap(req.origin))

\* The upstream's Content-Type carries an HLS token once lower-cased.
HasHlsToken == \E mime \in M3U8_MIME_TYPES : Contains(ToLower(content_type), mime)
Fetched == content_type # None
Streamed == Done /\ response.body.kind = "stream"

\* C3: a fetched response is treated as a playlist if and only if the target
\* path ends in .m3u8 or its Content-Type, lower-cased, contains an HLS token.
C3_ClassifiedPlaylistIffSuffixOrToken ==
  Fetched => (~Streamed <=> (EndsWith(target_url.path, Chars(".m3u8")) \/ HasHlsToken))

\* C4: the rewritten body has as many lines as the playlist read, and its
\* i-th line is the rewriting of the i-th line read.
C4_LineCountAndOrderPreserved ==
  (Rewritten /\ InLines # <<>>) =>
    LET out == Split(response.body.text, "\n") IN
      /\ Len(out) = Len(InLines)
      /\ \A i \in 1..Len(InLines) : out[i] = lines[i]

\* The reference the rewriter put into the output line out of the input line
\* in: the whole of a bare line, and on a '#' line the text between the
\* quotes it wrote after URI= (what precedes and follows is the input's).
EmittedLink(in, out) ==
  IF ~StartsWith(in, <<"#">>) THEN out
  ELSE IF StartsWith(in, MAP_PREFIX) THEN Slice(out, Len(MAP_PREFIX) + 1, Len(out) - 1)
  ELSE LET c == URI_REGEX_captures(in) IN
         Slice(out, c.start + 5, Len(out) - (Len(in) - c.end) - 1)

\* The candidate of an input line, as the rewriter extracts it.
HasCandidate(line) ==
  IF StartsWith(line, <<"#">>) \/ IsBlank(line)
    THEN StartsWith(line, MAP_PREFIX) \/ URI_REGEX_is_match(line)
    ELSE TRUE

Candidate(line) ==
  IF StartsWith(line, MAP_PREFIX)
    THEN trim_end_matches(trim_start_matches(line, MAP_PREFIX), "\"")
  ELSE IF StartsWith(line, <<"#">>) \/ IsBlank(line) THEN URI_REGEX_captures(line).url
  ELSE line

Resolves(line) == HasCandidate(line) /\ get_url(Candidate(line), target_url).ok
FailsToResolve(line) == HasCandidate(line) /\ ~get_url(Candidate(line), target_url).ok

\* C5: with a headers parameter on the request, every rewritten reference,
\* parsed back by the request parser, gives the same headers parameter and
\* the resolved reference as url.
C5_HeadersSurviveTheHop ==
  (Rewritten /\ IsSome(query.headers)) =>
    \A i \in 1..Len(InLines) :
      Resolves(InLines[i]) =>
        LET link == EmittedLink(InLines[i], lines[i])
            back == QueryParams_from_query(From(link, 3))
        IN /\ StartsWith(link, UrlPrefix)
           /\ back.ok
           /\ back.headers = query.headers
           /\ back.url = Url_as_str(get_url(Candidate(InLines[i]), target_url).val)

\* The text between the quotes of the URI of an EXT-X-MAP line, and what
\* follows it from the closing quote on.
MapClose(line) == FindChar(line, Len(MAP_PREFIX) + 1, "\"")
MapUri(line) == Slice(line, Len(MAP_PREFIX) + 1, MapClose(line) - 1)
MapRest(line) == From(line, MapClose(line))

\* C6: an EXT-X-MAP line is re-emitted with only the text between the quotes
\* of its URI replaced by the rewritten reference of that URI.
C6_MapLineKeepsItsOtherAttributes ==
  Rewritten =>
    \A i \in 1..Len(InLines) :
      (/\ StartsWith(InLines[i], MAP_PREFIX)
       /\ MapClose(InLines[i]) # 0
       /\ get_url(MapUri(InLines[i]), target_url).ok) =>
        lines[i] = MAP_PREFIX \o Chars("/?")
                     \o NewQuery(get_url(MapUri(InLines[i]), target_url).val, query.headers)
                     \o MapRest(InLines[i])

\* The values of all URI="..." and URL="..." attributes of a line.
AttributeValues(line) == {RegexAt(line, p).url : p \in {p \in 1..Len(line) : RegexAt(line, p).ok}}

\* Every reference of the playlist read resolves.
AllResolve ==
  \A i \in 1..Len(InLines) :
    IF StartsWith(InLines[i], <<"#">>)
      THEN \A v \in AttributeValues(InLines[i]) : get_url(v, target_url).ok
      ELSE IsBlank(InLines[i]) \/ get_url(InLines[i], target_url).ok

\* C7: after rewriting a playlist whose references all resolve, every bare
\* segment line and every URI/URL attribute value of every '#' line starts
\* with /?url= .
C7_EveryReferenceGoesThroughTheRelay ==
  (Rewritten /\ AllResolve) =>
    \A i \in 1..Len(lines) :
      IF StartsWith(InLines[i], <<"#">>)
        THEN \A v \in AttributeValues(lines[i]) : StartsWith(v, UrlPrefix)
        ELSE IsBlank(InLines[i]) \/ StartsWith(lines[i], UrlPrefix)

\* C8: in the headers sent upstream, Origin is the origin parameter when it is
\* given and Range is the inbound Range when there is one, whatever the
\* headers JSON holds.
C8_OriginAndRangeTakePrecedence ==
  fetches > 0 =>
    /\ IsSome(query.origin) => Get(headers, Chars("origin")) = query.origin
    /\ IsSome(req.range) => Get(headers, Chars("range")) = req.range

\* C8 witness: a fetch whose headers JSON names both ORIGIN and RANGE, with
\* an origin parameter and an inbound Range.
C8_Witness ==
  /\ fetches > 0
  /\ IsSome(query.origin) /\ IsSome(req.range)
  /\ {Chars("ORIGIN"), Chars("RANGE")} \subseteq JsonKeys(query)
  /\ Get(headers, Chars("origin")) = Some(Chars("http://player.example"))
  /\ Get(headers, Chars("range")) = ClientRange

\* What the request parser demands of a request before the fetch.
ParserAccepts ==
  LET q == QueryParams_from_query(req.query_string)
      j == serde_json_from_str(Unwrap(q.headers))
  IN /\ q.ok
     /\ Url_parse(q.url).ok
     /\ IsSome(q.headers) =>
          /\ j.ok
          /\ Cardinality(DOMAIN j.val) <= MAX_HEADERS
          /\ \A k \in DOMAIN j.val : HeaderName_try_from(k).ok /\ HeaderValue_from_str(j.val[k]).ok
     /\ IsSome(q.origin) => HeaderValue_from_str(Unwrap(q.origin)).ok

\* C9: a request causes at most one fetch, none before the origin check and
\* the parser have accepted it, and a failed fetch ends it with 500 and no
\* upstream body.
C9_OneFetchAfterValidation ==
  /\ fetches <= 1
  /\ Started =>
       LET accepted == ~Denied /\ ParserAccepts IN
         /\ fetches = 1 => accepted
         /\ ~accepted => (Done /\ fetches = 0 /\ response.status = IF Denied THEN 403 ELSE 400)
  /\ (Done /\ fetches = 1 /\ ~Fetched) =>
       (response.status = 500 /\ response.body.kind = "text" /\ m3u8_text = None)

\* C9 witness: a fetch that failed.
C9_Witness == Done /\ fetches = 1 /\ ~Fetched /\ response.status = 500

\* C10: a line whose candidate does not resolve is emitted as it was read,
\* the lines that resolve are rewritten all the same, and the answer is the
\* 200 playlist.
C10_UnresolvedLinePassesThrough ==
  (PlaylistRead /\ \E i \in 1..Len(InLines) : FailsToResolve(InLines[i])) =>
    /\ response.status = 200
    /\ response.headers[CONTENT_TYPE] = Chars("application/vnd.apple.mpegurl")
    /\ response.body.text = Join(lines, <<"\n">>)
    /\ Len(lines) = Len(InLines)
    /\ \A i \in 1..Len(InLines) :
         /\ FailsToResolve(InLines[i]) => lines[i] = InLines[i]
         /\ Resolves(InLines[i]) => StartsWith(EmittedLink(InLines[i], lines[i]), UrlPrefix)

\* C10 witness: a playlist with a bare line that does not resolve next to a
\* line that does.
C10_Witness ==
  /\ Rewritten
  /\ \E i, j \in 1..Len(InLines) :
       /\ ~StartsWith(InLines[i], <<"#">>) /\ FailsToResolve(InLines[i])
       /\ Resolves(InLines[j]) /\ lines[j] # InLines[j]

====
